---- MODULE Spec2Model ----
(***************************************************************************)
(* GLM4Free API server (src/server.py): the process-wide Z.AI session      *)
(* (_bot, guarded by _lock), the request handlers /health, /chat and       *)
(* /v1/chat/completions, and the streaming relay stream_chunks with its    *)
(* single recovery after an upstream 401.                                  *)
(*                                                                         *)
(* Handlers are plain "def" routes, so FastAPI runs each request on a      *)
(* worker thread: the requests of Reqs interleave at every step below.     *)
(***************************************************************************)
EXTENDS Naturals, Sequences, FiniteSets, TLC

\* ------------------------------------------------------------------ bounds
\* Number of requests of a run, as callers of get_bot.
NumReqs == 3
\* Number of them that may run concurrently as relay calls.
NumRelays == 2
\* Longest upstream response body (in lines) of a run.
MaxLines == 2
\* Longest "messages" list of a /v1/chat/completions request.
MaxMsgs == 3

Reqs == 1..(IF NumReqs > NumRelays THEN NumReqs ELSE NumRelays)
Callers == 1..NumReqs
Relays == 1..NumRelays

\* ------------------------------------------------------- program constants
\* Python's None: no object / unset field.  Object ids and request ids are >= 1.
None == 0

\* glm4free.client.DEFAULT_MODEL and AVAILABLE_MODELS, as the request schema
\* and the web UI list them.
DEFAULT_MODEL == "glm-5"
AVAILABLE_MODELS == {"glm-5", "glm-4.7", "glm-4.5"}

\* Models a caller may ask for: one of the catalog, one outside it.
ReqModels == {"glm-4.5", "gpt-4"}
\* The model the callers of the concurrent specification ask for.
OneModel == {"glm-4.5"}

Endpoints == {"/health", "/chat", "/v1/chat/completions"}

\* What an upstream request can end with: an HTTP status, or no answer
\* within timeout=60.
Outcomes == {"200", "401", "500", "timeout"}

\* Upstream response lines (bytes of one SSE line), by shape.
\*   blank      b""                                  (keep-alive)
\*   comment    a line without the "data: " prefix
\*   done       data: [DONE]
\*   malformed  data: <not JSON>
\*   native     data: {"data": {"delta_content": text}}
\*   openai     data: {"choices": [{"delta": {"content": text}}]}
\*   nodelta    data: {"choices": [{"delta": {}}]}
\*   other      data: {"type": "ping"}
\*   nochoice   data: {"choices": []}
Line(shape, text) == [shape |-> shape, text |-> text]
Lines ==
  { Line(s, "") : s \in {"blank", "comment", "done", "malformed", "nodelta",
                         "other", "nochoice"} }
  \cup { Line(s, t) : s \in {"native", "openai"}, t \in {"a", "b"} }
\* The lines the concurrent specification draws from.
CoarseLines == { Line("native", "a"), Line("done", "") }

\* Chat messages: {"role": ..., "content": ...}.
Message(role, content) == [role |-> role, content |-> content]
Msgs ==
  { Message("system", "s1"), Message("system", "s2"),
    Message("user", "u1"), Message("assistant", "a1") }
\* The "messages" lists a /v1/chat/completions request may carry; the empty
\* list is one of them (messages: List[Message]).
Prompts == UNION { [1..n -> Msgs] : n \in 0..MaxMsgs }
\* The "system" fields a /chat request may carry; "" is the absent one.
Systems == {"", "s1"}
\* The request bodies the specifications of the relay draw from.
OnePrompt == { << Message("user", "u1") >> }
NoSystem == {""}

VARIABLES
  _bot,      \* the module global: None or the id of a ZChat object
  _lock,     \* threading.Lock: None or the request holding it
  heap,      \* the ZChat objects constructed so far, by id
  pc,        \* where each request is
  req,       \* each request's parameters
  bot,       \* local "bot" of a handler (get_bot's return value)
  b,         \* parameter b of the running _do_stream
  original_model,
  model_to_use,
  sent,      \* upstream requests issued by the request's stream_chunks call
  statuses,  \* what each of them ended with
  recv,      \* lines read from the current upstream response
  out,       \* the deltas stream_chunks has yielded
  result,    \* how the request ended
  waited,    \* get_bot found no valid session at its first test
  gbInit,    \* the object get_bot's _init_bot constructed, or None
  recInit,   \* the objects recover_session's _init_bot constructed
  messages,  \* local "messages" of a handler, as passed to stream_chunks
  conn,      \* the upstream response of the running _do_stream
  response   \* what the caller has been sent: status line and body

vars == << _bot, _lock, heap, pc, req, bot, b, original_model, model_to_use,
           sent, statuses, recv, out, result, waited, gbInit, recInit,
           messages, conn, response >>

\* ------------------------------------------------------------ ZChat objects
\* ZChat(): a client object with no credentials yet and the default model.
ZChat ==
  [ token |-> None, user_id |-> None, user_name |-> None, salt_key |-> None,
    fe_version |-> None, model |-> DEFAULT_MODEL ]

\* ZChat.initialize() on object o: on success every credential field is set
\* (to values of the o-th acquisition) and True is returned; on failure the
\* object stays without credentials and False is returned.
initialize(h, o, ok) ==
  IF ok
    THEN [h EXCEPT ![o] = [ token |-> o, user_id |-> o, user_name |-> o,
                            salt_key |-> o, fe_version |-> o,
                            model |-> h[o].model ]]
    ELSE h

\* A session whose fields are all set.
Populated(o) ==
  /\ o # None
  /\ heap[o].token # None
  /\ heap[o].user_id # None
  /\ heap[o].user_name # None
  /\ heap[o].salt_key # None
  /\ heap[o].fe_version # None

\* How a request ends.
Ended(kind, status) == [kind |-> kind, status |-> status]
Running == Ended("running", "")
HTTPException(status) == Ended("HTTPException", status)

\* --------------------------------------------------------------------- Init
\* The state once startup() has run _init_bot, successfully or not, and
\* before any request has arrived.
Init ==
  /\ \E ok \in BOOLEAN : heap = initialize(<<ZChat>>, 1, ok)
  /\ _bot = 1
  /\ _lock = None
  /\ pc = [r \in Reqs |-> "idle"]
  /\ req = [r \in Reqs |-> [endpoint |-> "/health", stream |-> FALSE,
                            model |-> DEFAULT_MODEL, messages |-> <<>>,
                            message |-> "", system |-> ""]]
  /\ bot = [r \in Reqs |-> None]
  /\ b = [r \in Reqs |-> None]
  /\ original_model = [r \in Reqs |-> ""]
  /\ model_to_use = [r \in Reqs |-> ""]
  /\ sent = [r \in Reqs |-> <<>>]
  /\ statuses = [r \in Reqs |-> <<>>]
  /\ recv = [r \in Reqs |-> <<>>]
  /\ out = [r \in Reqs |-> <<>>]
  /\ result = [r \in Reqs |-> Running]
  /\ waited = [r \in Reqs |-> FALSE]
  /\ gbInit = [r \in Reqs |-> None]
  /\ recInit = [r \in Reqs |-> <<>>]
  /\ messages = [r \in Reqs |-> <<>>]
  /\ conn = [r \in Reqs |-> "none"]
  /\ response = [r \in Reqs |-> [status |-> "", body |-> <<>>]]

\* Variables that belong to the relay call of a request.
relayVars == << b, sent, statuses, recv, out, conn >>
\* Variables that belong to the handler's own frame.
frameVars == << bot, original_model, model_to_use, messages >>
\* The shared session.
sessionVars == << _bot, _lock, heap >>
histVars == << waited, gbInit, recInit >>

\* A request arrives: its endpoint and parameters are validated and the
\* handler starts, with get_bot() as its first statement.
Arrive(r, endpoints, models, prompts, systems) ==
  /\ pc[r] = "idle"
  /\ \E e \in endpoints, s \in BOOLEAN, m \in models,
        ms \in prompts, sy \in systems :
       /\ req' = [req EXCEPT ![r] =
                    [ endpoint |-> e,
                      stream |-> IF e = "/health" THEN FALSE ELSE s,
                      model |-> IF e = "/v1/chat/completions" THEN m ELSE "",
                      messages |-> IF e = "/v1/chat/completions" THEN ms ELSE <<>>,
                      message |-> IF e = "/chat" THEN "u1" ELSE "",
                      system |-> IF e = "/chat" THEN sy ELSE "" ]]
  /\ pc' = [pc EXCEPT ![r] = "get_bot"]
  /\ UNCHANGED << sessionVars, frameVars, relayVars, result, histVars, response >>

\* ---------------------------------------------------------------- responses
\* One event of a response body.  A chunk of /v1/chat/completions has the
\* completion id (the request's own), the model name, the delta (<<>> is the
\* empty object {}, <<text>> is {"content": text}) and the finish_reason.
Event(object, id, model, delta, finish_reason) ==
  [ object |-> object, id |-> id, model |-> model, delta |-> delta,
    finish_reason |-> finish_reason ]

\* The response has started: its status line has been sent.
Started(resp) == resp.status # ""

\* The handler returns a value: status 200 with that body.
Returned(body) == [status |-> "200", body |-> body]

\* An exception leaves the handler or the generator of its response.  Before
\* the response has started it becomes the response (HTTPException's
\* status_code, 500 for any other exception); once the response has started
\* its status has been sent and the body just ends.
Raised(resp, status) ==
  IF Started(resp) THEN resp ELSE [status |-> status, body |-> <<>>]

\* ------------------------------------------------------------------ get_bot
\* "not _bot or not _bot.token"
NoSession == _bot = None \/ heap[_bot].token = None

\* A get_bot that takes the lock on every call.
get_bot_first_test_always_locks == TRUE

\* The test before taking the lock.
get_bot_first_test == NoSession

\* A get_bot that does not test again once it has the lock.
get_bot_second_test_missing == TRUE

\* The test repeated inside "with _lock".
get_bot_second_test == NoSession

\* _init_bot, first statement: _bot = ZChat().
NewBot ==
  /\ heap' = Append(heap, ZChat)
  /\ _bot' = Len(heap) + 1

get_bot_check(r) ==
  /\ pc[r] = "get_bot"
  /\ IF get_bot_first_test
       THEN /\ pc' = [pc EXCEPT ![r] = "gb_lock"]
            /\ waited' = [waited EXCEPT ![r] = TRUE]
       ELSE /\ pc' = [pc EXCEPT ![r] = "gb_return"]
            /\ UNCHANGED waited
  /\ UNCHANGED << sessionVars, req, frameVars, relayVars, result, gbInit, recInit, response >>

\* "with _lock:" is entered when the lock is free; the test is repeated and
\* either the lock is released at once or _init_bot starts.
get_bot_locked(r) ==
  /\ pc[r] = "gb_lock"
  /\ _lock = None
  /\ IF get_bot_second_test
       THEN /\ NewBot
            /\ _lock' = r
            /\ gbInit' = [gbInit EXCEPT ![r] = Len(heap) + 1]
            /\ pc' = [pc EXCEPT ![r] = "gb_init"]
       ELSE /\ pc' = [pc EXCEPT ![r] = "gb_return"]
            /\ UNCHANGED << sessionVars, gbInit >>
  /\ UNCHANGED << req, frameVars, relayVars, result, waited, recInit, response >>

\* _init_bot's "return _bot.initialize()" and what get_bot does with it.
get_bot_init(r) ==
  /\ pc[r] = "gb_init"
  /\ _lock = r
  /\ \E ok \in BOOLEAN :
       /\ heap' = initialize(heap, _bot, ok)
       /\ IF ok
            THEN /\ pc' = [pc EXCEPT ![r] = "gb_return"]
                 /\ UNCHANGED result
            ELSE /\ pc' = [pc EXCEPT ![r] = "done"]
                 /\ result' = [result EXCEPT ![r] = HTTPException("503")]
       /\ response' = [response EXCEPT ![r] =
                         IF ok THEN @ ELSE Raised(@, "503")]
  /\ _lock' = None
  /\ UNCHANGED << _bot, req, frameVars, relayVars, histVars >>

\* "return _bot": the global is read again, outside the lock.
get_bot_return(r) ==
  /\ pc[r] = "gb_return"
  /\ bot' = [bot EXCEPT ![r] = _bot]
  /\ pc' = [pc EXCEPT ![r] = "handler"]
  /\ UNCHANGED << sessionVars, req, original_model, model_to_use, messages,
                  relayVars, result, histVars, response >>

\* ------------------------------------------------------ apply_system_prompt
\* sep.join(parts)
RECURSIVE join(_, _)
join(sep, parts) ==
  IF parts = <<>> THEN ""
  ELSE IF Len(parts) = 1 THEN parts[1]
  ELSE parts[1] \o sep \o join(sep, Tail(parts))

\* "[m["content"] for m in messages if m["role"] == "system"]"
system_parts(msgs) ==
  LET IsSystem(m) == m.role = "system"
      systems == SelectSeq(msgs, IsSystem)
  IN  [i \in 1..Len(systems) |-> systems[i].content]

\* "[m for m in messages if m["role"] != "system"]"
non_system(msgs) ==
  LET NotSystem(m) == m.role # "system" IN SelectSeq(msgs, NotSystem)

\* A loop that puts the system block in front of every user message.
TakesBlock_every_user(m, injected) == m.role = "user"

\* The test of the loop: this message takes the system block.
TakesBlock(m, injected) == m.role = "user" /\ ~injected

\* The loop over non_system, from the state (patched, injected) on.
RECURSIVE patch_loop(_, _, _, _)
patch_loop(rest, system_block, patched, injected) ==
  IF rest = <<>> THEN [patched |-> patched, injected |-> injected]
  ELSE LET m == Head(rest) IN
    IF TakesBlock(m, injected)
      THEN patch_loop(Tail(rest), system_block,
             Append(patched,
               Message("user", "[System instructions]\n" \o system_block
                                 \o "\n\n" \o m.content)),
             TRUE)
      ELSE patch_loop(Tail(rest), system_block, Append(patched, m), injected)

\* An apply_system_prompt without its early return.
NothingToInject_never(parts) == FALSE

\* The test of the early return.
NothingToInject(parts) == parts = <<>>

apply_system_prompt(msgs) ==
  IF NothingToInject(system_parts(msgs)) THEN non_system(msgs)
  ELSE
    LET system_block == join("\n\n", system_parts(msgs))
        loop == patch_loop(non_system(msgs), system_block, <<>>, FALSE)
    IN  IF ~loop.injected
          THEN << Message("user", "[System instructions]\n" \o system_block) >>
                 \o loop.patched
          ELSE loop.patched

\* ----------------------------------------------------------------- handlers
\* health(): reads bot.user_name and bot.model and answers.
health(r) ==
  /\ pc[r] = "handler"
  /\ req[r].endpoint = "/health"
  /\ pc' = [pc EXCEPT ![r] = "done"]
  /\ result' = [result EXCEPT ![r] = Ended("ok", "200")]
  /\ response' = [response EXCEPT ![r] = Returned(<<>>)]
  /\ UNCHANGED << sessionVars, req, frameVars, relayVars, histVars >>

\* simple_chat's "messages" before apply_system_prompt: the system prompt,
\* if the request has one, and the user's message.
chat_messages(q) ==
  (IF q.system # "" THEN << Message("system", q.system) >> ELSE <<>>)
    \o << Message("user", q.message) >>

\* simple_chat(): builds the messages and calls stream_chunks(bot, ...).  A
\* streaming request hands the generator, not yet started, to the response;
\* otherwise "".join starts it at once.
simple_chat(r) ==
  /\ pc[r] = "handler"
  /\ req[r].endpoint = "/chat"
  /\ messages' = [messages EXCEPT ![r] = apply_system_prompt(chat_messages(req[r]))]
  /\ b' = [b EXCEPT ![r] = bot[r]]
  /\ pc' = [pc EXCEPT ![r] = IF req[r].stream THEN "created" ELSE "connect"]
  /\ UNCHANGED << sessionVars, req, bot, original_model, model_to_use, sent,
                  statuses, recv, out, conn, result, histVars, response >>

\* "req.model if req.model in AVAILABLE_MODELS else DEFAULT_MODEL"
ModelFor(m) == IF m \in AVAILABLE_MODELS THEN m ELSE DEFAULT_MODEL

\* openai_chat() up to the call of stream_chunks: the model of the session
\* object is saved in original_model and overwritten with model_to_use.
openai_chat(r) ==
  /\ pc[r] = "handler"
  /\ req[r].endpoint = "/v1/chat/completions"
  /\ model_to_use' = [model_to_use EXCEPT ![r] = ModelFor(req[r].model)]
  /\ original_model' = [original_model EXCEPT ![r] = heap[bot[r]].model]
  /\ heap' = [heap EXCEPT ![bot[r]].model = ModelFor(req[r].model)]
  /\ messages' = [messages EXCEPT ![r] = apply_system_prompt(req[r].messages)]
  /\ b' = [b EXCEPT ![r] = bot[r]]
  /\ pc' = [pc EXCEPT ![r] = IF req[r].stream THEN "created" ELSE "connect"]
  /\ UNCHANGED << _bot, _lock, req, bot, sent, statuses, recv, out, conn,
                  result, histVars, response >>

\* The StreamingResponse the handler returned starts: its status line is
\* sent and its generator is iterated for the first time.
first_next(r) ==
  /\ pc[r] = "created"
  /\ pc' = [pc EXCEPT ![r] = "connect"]
  /\ response' = [response EXCEPT ![r] = Returned(<<>>)]
  /\ UNCHANGED << sessionVars, req, frameVars, relayVars, result, histVars >>

\* ------------------------------------------------------------ stream_chunks
\* The upstream request _do_stream(b) posts: who authenticates it, the model
\* its payload names, read from b when the request is built, the prompt its
\* signature is made of and the messages of its payload.
Request(o, msgs) ==
  [ session |-> o, token |-> heap[o].token, user_id |-> heap[o].user_id,
    salt_key |-> heap[o].salt_key, fe_version |-> heap[o].fe_version,
    user_name |-> heap[o].user_name, model |-> heap[o].model,
    prompt |-> IF msgs # <<>> THEN msgs[Len(msgs)].content ELSE "",
    messages |-> msgs ]

\* A relay that posts without "with": nothing closes the response.
WithExit_leaks(c) == c

\* Leaving "with b.session.post(...) as r": the response is closed and its
\* connection released, however the block is left.
WithExit(c) == IF c = "open" THEN "released" ELSE c

\* A relay that takes every failed response for an expired token.
OnStatus_any_failure_is_auth(st) ==
  IF st # "200" THEN "AUTH_EXPIRED" ELSE "iter_lines"

\* What _do_stream does with the status line of the response:
\* return "AUTH_EXPIRED", raise, or go on to read the body.
OnStatus(st) ==
  IF st = "401" THEN "AUTH_EXPIRED"
  ELSE IF st = "timeout" THEN "raise Timeout"
  ELSE IF st # "200" THEN "raise HTTPException"
  ELSE "iter_lines"

\* A relay that recovers after every "AUTH_EXPIRED", the retry's included.
AfterDoStream_retry_loop(nth, res) ==
  IF res = "AUTH_EXPIRED" THEN "recover" ELSE "finish"

\* stream_chunks after a _do_stream has returned res: only the first one's
\* "AUTH_EXPIRED" leads to recover_session; the second one's return value
\* is dropped.
AfterDoStream(nth, res) ==
  IF nth = 1 /\ res = "AUTH_EXPIRED" THEN "recover" ELSE "finish"

\* b.session.post(...) and the tests of r.status_code.
do_stream_post(r) ==
  /\ pc[r] = "connect"
  /\ \E st \in Outcomes :
       /\ sent' = [sent EXCEPT ![r] = Append(@, Request(b[r], messages[r]))]
       /\ statuses' = [statuses EXCEPT ![r] = Append(@, st)]
       /\ recv' = [recv EXCEPT ![r] = <<>>]
       /\ LET on == OnStatus(st) IN
            CASE on = "AUTH_EXPIRED" ->
                   /\ pc' = [pc EXCEPT ![r] =
                               AfterDoStream(Len(sent[r]) + 1, "AUTH_EXPIRED")]
                   /\ conn' = [conn EXCEPT ![r] = WithExit("open")]
                   /\ UNCHANGED << result, response >>
              [] on = "raise Timeout" ->
                   /\ pc' = [pc EXCEPT ![r] = "done"]
                   /\ result' = [result EXCEPT ![r] = Ended("Timeout", "")]
                   /\ response' = [response EXCEPT ![r] = Raised(@, "500")]
                   /\ UNCHANGED conn
              [] on = "raise HTTPException" ->
                   /\ pc' = [pc EXCEPT ![r] = "done"]
                   /\ result' = [result EXCEPT ![r] = HTTPException(st)]
                   /\ response' = [response EXCEPT ![r] = Raised(@, st)]
                   /\ conn' = [conn EXCEPT ![r] = WithExit("open")]
              [] OTHER ->
                   /\ pc' = [pc EXCEPT ![r] = "lines"]
                   /\ conn' = [conn EXCEPT ![r] = "open"]
                   /\ UNCHANGED << result, response >>
  /\ UNCHANGED << sessionVars, req, frameVars, b, out, histVars >>

\* A loop that takes the [DONE] payload for one more line to skip.
OnLine_done_ignored(line) ==
  IF line.shape \in {"native", "openai"} THEN [act |-> "yield", text |-> line.text]
  ELSE IF line.shape = "nodelta" THEN [act |-> "yield", text |-> ""]
  ELSE [act |-> "skip", text |-> ""]

\* One line of r.iter_lines() in _do_stream: what the loop body does with it.
\* [act |-> "skip"], [act |-> "return"] (the [DONE] payload) or
\* [act |-> "yield", text |-> ...].
OnLine(line) ==
  IF line.shape = "blank" THEN [act |-> "skip", text |-> ""]
  ELSE IF line.shape = "comment" THEN [act |-> "skip", text |-> ""]
  ELSE IF line.shape = "done" THEN [act |-> "return", text |-> ""]
  ELSE IF line.shape = "malformed" THEN [act |-> "skip", text |-> ""]
  ELSE IF line.shape = "native" THEN [act |-> "yield", text |-> line.text]
  ELSE IF line.shape = "openai" THEN [act |-> "yield", text |-> line.text]
  ELSE IF line.shape = "nodelta" THEN [act |-> "yield", text |-> ""]
  ELSE [act |-> "skip", text |-> ""]

\* A relay whose second _do_stream is called without "yield from": its
\* deltas never reach the caller.
YieldFrom_retry_not_iterated(nth, deltas, text) ==
  IF nth = 2 THEN deltas ELSE Append(deltas, text)

\* "yield from _do_stream(...)", first or second: a delta the inner generator
\* yields is the next one the caller of stream_chunks receives.
YieldFrom(nth, deltas, text) == Append(deltas, text)

\* What a streaming response sends for one delta of stream_chunks: /chat
\* sends the text itself, openai_chat.generate wraps it in a chunk event.
StreamedChunk(cid, model, chunk) ==
  Event("chat.completion.chunk", cid, model, <<chunk>>, "null")

Streamed(r, chunk) ==
  IF req[r].endpoint = "/v1/chat/completions"
    THEN StreamedChunk(r, model_to_use[r], chunk)
    ELSE Event("text", None, "", <<chunk>>, "")

\* The loop over r.iter_lines() takes the next line of the body.
do_stream_line(r, alphabet) ==
  /\ pc[r] = "lines"
  /\ Len(recv[r]) < MaxLines
  /\ \E line \in alphabet :
       /\ recv' = [recv EXCEPT ![r] = Append(@, line)]
       /\ LET on == OnLine(line) IN
            CASE on.act = "yield" ->
                   /\ out' = [out EXCEPT ![r] = YieldFrom(Len(sent[r]), @, on.text)]
                   /\ pc' = [pc EXCEPT ![r] =
                               IF req[r].stream THEN "yielded" ELSE "lines"]
                   /\ response' = [response EXCEPT ![r].body =
                                     IF out'[r] # out[r] /\ req[r].stream
                                       THEN Append(@, Streamed(r, on.text))
                                       ELSE @]
                   /\ UNCHANGED conn
              [] on.act = "return" ->
                   /\ pc' = [pc EXCEPT ![r] =
                               AfterDoStream(Len(sent[r]), "DONE")]
                   /\ conn' = [conn EXCEPT ![r] = WithExit(@)]
                   /\ UNCHANGED << out, response >>
              [] OTHER ->
                   /\ UNCHANGED << pc, out, conn, response >>
  /\ UNCHANGED << sessionVars, req, frameVars, b, sent, statuses, result,
                  histVars >>

\* The body ends without a [DONE] line: the loop ends, "return 'DONE'".
do_stream_eof(r) ==
  /\ pc[r] = "lines"
  /\ pc' = [pc EXCEPT ![r] = AfterDoStream(Len(sent[r]), "DONE")]
  /\ conn' = [conn EXCEPT ![r] = WithExit(@)]
  /\ UNCHANGED << sessionVars, req, frameVars, b, sent, statuses, recv, out,
                  result, histVars, response >>

\* No line arrives within timeout=60 while the body is read: iter_lines
\* raises, and nothing in _do_stream or stream_chunks catches it.
do_stream_read_timeout(r) ==
  /\ pc[r] = "lines"
  /\ pc' = [pc EXCEPT ![r] = "done"]
  /\ result' = [result EXCEPT ![r] = Ended("Timeout", "")]
  /\ response' = [response EXCEPT ![r] = Raised(@, "500")]
  /\ conn' = [conn EXCEPT ![r] = WithExit(@)]
  /\ UNCHANGED << sessionVars, req, frameVars, b, sent, statuses, recv, out,
                  histVars >>

\* The consumer of a streaming response asks for the next chunk.
next_chunk(r) ==
  /\ pc[r] = "yielded"
  /\ pc' = [pc EXCEPT ![r] = "lines"]
  /\ UNCHANGED << sessionVars, req, frameVars, relayVars, result, histVars, response >>

\* ---------------------------------------------------------- recover_session
\* "with _lock:" is entered when the lock is free, and _init_bot starts:
\* _bot = ZChat().  There is no test of the current session here.
recover_session_locked(r) ==
  /\ pc[r] = "recover"
  /\ _lock = None
  /\ _lock' = r
  /\ NewBot
  /\ recInit' = [recInit EXCEPT ![r] = Append(@, Len(heap) + 1)]
  /\ pc' = [pc EXCEPT ![r] = "rec_init"]
  /\ UNCHANGED << req, frameVars, relayVars, result, waited, gbInit, response >>

\* A recover_session that ignores what _init_bot returns.
recover_session_raises_never(ok) == FALSE

\* "if not ok: raise HTTPException(status_code=503, ...)"
recover_session_raises(ok) == ~ok

\* _init_bot's "return _bot.initialize()" and what recover_session does
\* with it; leaving "with _lock" releases the lock either way.
recover_session_init(r) ==
  /\ pc[r] = "rec_init"
  /\ _lock = r
  /\ \E ok \in BOOLEAN :
       /\ heap' = initialize(heap, _bot, ok)
       /\ IF recover_session_raises(ok)
            THEN /\ pc' = [pc EXCEPT ![r] = "done"]
                 /\ result' = [result EXCEPT ![r] = HTTPException("503")]
            ELSE /\ pc' = [pc EXCEPT ![r] = "retry"]
                 /\ UNCHANGED result
       /\ response' = [response EXCEPT ![r] =
                         IF recover_session_raises(ok) THEN Raised(@, "503")
                         ELSE @]
  /\ _lock' = None
  /\ UNCHANGED << _bot, req, frameVars, relayVars, histVars >>

\* "yield from _do_stream(_bot)": the global is read, outside the lock, and
\* becomes b of the second _do_stream.
retry(r) ==
  /\ pc[r] = "retry"
  /\ b' = [b EXCEPT ![r] = _bot]
  /\ pc' = [pc EXCEPT ![r] = "connect"]
  /\ UNCHANGED << sessionVars, req, frameVars, sent, statuses, recv, out, conn,
                  result, histVars, response >>

\* ------------------------------------------------- after stream_chunks ends
\* simple_chat: "".join(...) returns, or the streamed generator is exhausted.
simple_chat_end(r) ==
  /\ pc[r] = "finish"
  /\ req[r].endpoint = "/chat"
  /\ pc' = [pc EXCEPT ![r] = "done"]
  /\ result' = [result EXCEPT ![r] = Ended("ok", "200")]
  /\ response' = [response EXCEPT ![r] =
                    IF req[r].stream THEN @
                    ELSE Returned(<< Event("reply", None, heap[bot[r]].model,
                                           << join("", out[r]) >>, "") >>)]
  /\ UNCHANGED << sessionVars, req, frameVars, relayVars, histVars >>

\* "bot.model = original_model"
RestoreModel(r) == heap' = [heap EXCEPT ![bot[r]].model = original_model[r]]

\* openai_chat, not streaming: "".join(...) returns, the model is put back
\* and the completion object is returned.
openai_chat_end(r) ==
  /\ pc[r] = "finish"
  /\ req[r].endpoint = "/v1/chat/completions"
  /\ ~req[r].stream
  /\ RestoreModel(r)
  /\ pc' = [pc EXCEPT ![r] = "done"]
  /\ result' = [result EXCEPT ![r] = Ended("ok", "200")]
  /\ response' = [response EXCEPT ![r] =
                    Returned(<< Event("chat.completion", r, model_to_use[r],
                                      << join("", out[r]) >>, "stop") >>)]
  /\ UNCHANGED << _bot, _lock, req, frameVars, relayVars, histVars >>

\* A generate that ends without the "[DONE]" line.
StreamedFinal_no_sentinel(cid, model) ==
  << Event("chat.completion.chunk", cid, model, <<>>, "stop") >>

\* What generate yields once its loop has ended: the final chunk, with an
\* empty delta and finish_reason "stop", and the "[DONE]" line after it.
StreamedFinal(cid, model) ==
  << Event("chat.completion.chunk", cid, model, <<>>, "stop"),
     Event("[DONE]", None, "", <<>>, "") >>

\* openai_chat.generate: the loop over stream_chunks has ended and the
\* final chunk with "[DONE]" is yielded.
generate_final(r) ==
  /\ pc[r] = "finish"
  /\ req[r].endpoint = "/v1/chat/completions"
  /\ req[r].stream
  /\ pc' = [pc EXCEPT ![r] = "final"]
  /\ response' = [response EXCEPT ![r].body =
                    @ \o StreamedFinal(r, model_to_use[r])]
  /\ UNCHANGED << sessionVars, req, frameVars, relayVars, result, histVars >>

\* openai_chat.generate is resumed after its last yield: the model is put
\* back and the generator ends.
generate_end(r) ==
  /\ pc[r] = "final"
  /\ RestoreModel(r)
  /\ pc' = [pc EXCEPT ![r] = "done"]
  /\ result' = [result EXCEPT ![r] = Ended("ok", "200")]
  /\ UNCHANGED << _bot, _lock, req, frameVars, relayVars, histVars, response >>

\* The consumer of a streaming response goes away: the generator, which is
\* suspended at a yield or was never started, is closed.  GeneratorExit
\* unwinds it; there is no finally clause in generate or stream_chunks.
close(r) ==
  /\ pc[r] \in {"created", "yielded", "final"}
  /\ pc' = [pc EXCEPT ![r] = "done"]
  /\ result' = [result EXCEPT ![r] = Ended("closed", "")]
  /\ conn' = [conn EXCEPT ![r] = WithExit(@)]
  /\ UNCHANGED << sessionVars, req, frameVars, b, sent, statuses, recv, out,
                  histVars, response >>

\* --------------------------------------------------------- specifications
Step(r, models, alphabet) ==
  \/ Arrive(r, Endpoints, models, OnePrompt, NoSystem)
  \/ get_bot_check(r)
  \/ get_bot_locked(r)
  \/ get_bot_init(r)
  \/ get_bot_return(r)
  \/ health(r)
  \/ simple_chat(r)
  \/ openai_chat(r)
  \/ first_next(r)
  \/ do_stream_post(r)
  \/ do_stream_line(r, alphabet)
  \/ do_stream_eof(r)
  \/ do_stream_read_timeout(r)
  \/ next_chunk(r)
  \/ recover_session_locked(r)
  \/ recover_session_init(r)
  \/ retry(r)
  \/ simple_chat_end(r)
  \/ openai_chat_end(r)
  \/ generate_final(r)
  \/ generate_end(r)
  \/ close(r)

\* Concurrent requests.
Next == \E r \in Relays : Step(r, OneModel, CoarseLines)
Spec == Init /\ [][Next]_vars

\* One request alone, with every shape of upstream line.
NextRelay == Step(1, ReqModels, Lines)
SpecRelay == Init /\ [][NextRelay]_vars

\* Concurrent requests of /health, whose handler is get_bot() and a read.
NextGetBot ==
  \E r \in Callers :
    \/ Arrive(r, {"/health"}, OneModel, OnePrompt, NoSystem)
    \/ get_bot_check(r)
    \/ get_bot_locked(r)
    \/ get_bot_init(r)
    \/ get_bot_return(r)
    \/ health(r)
SpecGetBot == Init /\ [][NextGetBot]_vars

\* One request of /chat or /v1/chat/completions with every body of Prompts
\* and Systems, from its arrival to the status line of its upstream
\* requests, the retry's included.
NextPrompt ==
  \/ Arrive(1, {"/chat", "/v1/chat/completions"}, OneModel, Prompts, Systems)
  \/ get_bot_check(1)
  \/ get_bot_locked(1)
  \/ get_bot_init(1)
  \/ get_bot_return(1)
  \/ simple_chat(1)
  \/ openai_chat(1)
  \/ first_next(1)
  \/ do_stream_post(1)
  \/ recover_session_locked(1)
  \/ recover_session_init(1)
  \/ retry(1)
SpecPrompt == Init /\ [][NextPrompt]_vars

\* ------------------------------------------------------------------ claims
\* Calls of recover_session the request's stream_chunks has made: those that
\* have entered "with _lock", and the one waiting for the lock.
RecoverCalls(r) == Len(recInit[r]) + (IF pc[r] = "recover" THEN 1 ELSE 0)

\* stream_chunks has returned or raised, or its generator was closed.
RelayOver(r) == pc[r] \in {"finish", "final", "done"}

\* C1: one call of stream_chunks calls recover_session at most once and
\* issues at most two upstream requests, whatever the upstream answers; after
\* a second 401 the call is over, with no further refresh.
C1_BoundedRecovery ==
  \A r \in Reqs :
    /\ RecoverCalls(r) <= 1
    /\ Len(sent[r]) <= 2
    /\ (Len(statuses[r]) = 2 /\ statuses[r][2] = "401")
         => (RelayOver(r) /\ RecoverCalls(r) = 1)

C1_Witness ==
  \E r \in Reqs :
    /\ statuses[r] = <<"401", "401">>
    /\ Len(sent[r]) = 2
    /\ Len(recInit[r]) = 1
    /\ pc[r] = "done"

\* The text deltas an upstream body carries, in order: the content of each
\* "data: " line that holds a delta (an OpenAI-shaped delta without content
\* counts as the empty text), up to the first [DONE] line.
RECURSIVE TextDeltas(_)
TextDeltas(lines) ==
  IF lines = <<>> THEN <<>>
  ELSE LET l == Head(lines) IN
    IF l.shape = "done" THEN <<>>
    ELSE IF l.shape \in {"native", "openai"}
      THEN <<l.text>> \o TextDeltas(Tail(lines))
    ELSE IF l.shape = "nodelta" THEN <<"">> \o TextDeltas(Tail(lines))
    ELSE TextDeltas(Tail(lines))

\* C2: when the first upstream request of a call is answered 401 and the
\* retried one 200, the call yields exactly the text deltas of the second
\* response, in order, and recover_session has been called exactly once.
C2_RetryYieldsSecondStream ==
  \A r \in Reqs :
    statuses[r] = <<"401", "200">>
      => /\ out[r] = TextDeltas(recv[r])
         /\ RecoverCalls(r) = 1

C2_Witness ==
  \E r \in Reqs :
    /\ statuses[r] = <<"401", "200">>
    /\ result[r] = Ended("ok", "200")
    /\ out[r] = <<"b", "a">>

\* The recovery of request r has failed: recover_session's _init_bot has
\* returned and left its object without credentials.
RecoveryFailed(r) ==
  /\ Len(recInit[r]) >= 1
  /\ pc[r] # "rec_init"
  /\ ~Populated(recInit[r][1])

\* C4: when credential acquisition fails during the recovery after a 401,
\* the call ends with the 503 error of recover_session, and has made no
\* upstream request and no initialization beyond those before the failure.
C4_FailedRecoveryEndsCall ==
  \A r \in Reqs :
    RecoveryFailed(r)
      => /\ pc[r] = "done"
         /\ result[r] = HTTPException("503")
         /\ Len(sent[r]) = 1
         /\ Len(recInit[r]) = 1

C4_Witness ==
  \E r \in Reqs :
    /\ RecoveryFailed(r)
    /\ statuses[r] = <<"401">>
    /\ result[r] = HTTPException("503")

\* C5: only a 401 leads to recover_session.  When the k-th upstream request
\* of a call ends with another non-200 status or with a timeout (before the
\* status or while the body is read), the call fails with that error, the
\* k-th request is its last, and recover_session has been called only for
\* the 401s before it.
C5_OnlyAuthExpiryRecovers ==
  \A r \in Reqs :
    /\ RecoverCalls(r) >= 1 => statuses[r][1] = "401"
    /\ result[r] = Ended("Timeout", "")
         => (pc[r] = "done" /\ RecoverCalls(r) = Len(sent[r]) - 1)
    /\ \A k \in 1..Len(statuses[r]) :
         statuses[r][k] \in {"500", "timeout"}
           => /\ pc[r] = "done"
              /\ result[r] = (IF statuses[r][k] = "timeout"
                                THEN Ended("Timeout", "")
                                ELSE HTTPException(statuses[r][k]))
              /\ Len(sent[r]) = k
              /\ RecoverCalls(r) = k - 1

C5_Witness ==
  \E r \in Reqs :
    /\ statuses[r] \in {<<"500">>, <<"timeout">>}
    /\ pc[r] = "done"
    /\ Len(recInit[r]) = 0

\* C3: when both upstream requests of a call are answered 401, the call
\* fails with the session-unavailable error (503), after one refresh; it
\* does not end as a stream that completed.
C3_SecondAuthExpiryFails ==
  \A r \in Reqs :
    statuses[r] = <<"401", "401">>
      => /\ pc[r] = "done"
         /\ result[r] = HTTPException("503")
         /\ RecoverCalls(r) = 1

\* C6: the shared session is absent (as get_bot tests it: no object, or no
\* token) or has all its fields set, and no handler obtains from get_bot, or
\* authenticates an upstream request with, a session whose fields are not
\* all set.
C6_NoPartialSession ==
  /\ NoSession \/ Populated(_bot)
  /\ \A r \in Reqs :
       /\ bot[r] # None => Populated(bot[r])
       /\ \A k \in 1..Len(sent[r]) :
            /\ sent[r][k].token # None
            /\ sent[r][k].user_id # None
            /\ sent[r][k].user_name # None
            /\ sent[r][k].salt_key # None
            /\ sent[r][k].fe_version # None

\* Requests whose get_bot ran _init_bot.
GetBotInits == {r \in Reqs : gbInit[r] # None}

\* No recover_session has run, and no initialize() of get_bot has failed.
OnlyGetBotAndAcquired ==
  /\ \A r \in Reqs : Len(recInit[r]) = 0
  /\ \A r \in GetBotInits : pc[r] = "gb_init" \/ Populated(gbInit[r])

\* C7: when callers of get_bot find no valid session and credential
\* acquisition succeeds, one of them initializes; each of the others, having
\* waited for the lock and tested again, returns the session of that one
\* initialization and does not initialize.
C7_OneInitialization ==
  OnlyGetBotAndAcquired
    => /\ Cardinality(GetBotInits) <= 1
       /\ \A r \in Reqs :
            (waited[r] /\ bot[r] # None)
              => \E q \in GetBotInits :
                   /\ bot[r] = gbInit[q]
                   /\ Populated(bot[r])

C7_Witness ==
  \E q \in Callers :
    /\ OnlyGetBotAndAcquired
    /\ waited[q]
    /\ gbInit[q] # None
    /\ bot[q] = gbInit[q]
    /\ \A r \in Callers \ {q} :
         /\ waited[r]
         /\ gbInit[r] = None
         /\ bot[r] = gbInit[q]

\* C8: when concurrent relay calls that started with the same session each
\* receive a 401 for it, one re-initialization is performed for all of
\* them, not one per call.
C8_RecoveriesCollapse ==
  \A r, q \in Reqs :
    ( /\ r # q
      /\ Len(statuses[r]) >= 1 /\ statuses[r][1] = "401"
      /\ Len(statuses[q]) >= 1 /\ statuses[q][1] = "401"
      /\ sent[r][1].token # None
      /\ sent[r][1].session = sent[q][1].session )
      => Len(recInit[r]) + Len(recInit[q]) <= 1

\* C9: the shared session changes only under the session lock and only as
\* a whole: _bot is assigned by a holder of the lock, and the fields of a
\* session object are written only while it is being initialized under the
\* lock, never by a request handler.
C9_OnlyReplacedUnderLock ==
  [][ /\ _bot' # _bot => _lock' # None
      /\ \A o \in DOMAIN heap :
           heap'[o] # heap[o]
             => (_lock # None /\ o = _bot /\ heap[o].token = None) ]_vars

\* C10: once a /v1/chat/completions request has ended (with a completion,
\* with an error out of stream_chunks, or with its consumer gone), the
\* model of the session it used is what it was before the request.
C10_ModelRestored ==
  \A r \in Reqs :
    ( /\ req[r].endpoint = "/v1/chat/completions"
      /\ pc[r] = "done"
      /\ bot[r] # None )
      => heap[bot[r]].model = original_model[r]

\* C11: the session lock is held only by a request inside get_bot's
\* initialization or recover_session's refresh, never by one that reads an
\* upstream stream; and a get_bot that finds a valid session goes on to its
\* return statement without touching the lock, whatever the others do.
C11_LockOnlyAroundInit ==
  /\ [](\A r \in Reqs : _lock = r => pc[r] \in {"gb_init", "rec_init"})
  /\ [][ \A r \in Reqs :
           (pc[r] = "get_bot" /\ ~NoSession /\ pc'[r] # pc[r])
             => (pc'[r] = "gb_return" /\ _lock' = _lock) ]_vars

C11_Witness ==
  \E r, q \in Relays :
    /\ r # q
    /\ pc[r] \in {"lines", "yielded"}
    /\ ~NoSession
    /\ pc[q] = "gb_return"
    /\ ~waited[q]

\* The handler of request r has built its messages and called stream_chunks.
HandlerRan(r) == b[r] # None

\* The list the handler of request r gives to apply_system_prompt.
RawMessages(r) ==
  IF req[r].endpoint = "/chat" THEN chat_messages(req[r]) ELSE req[r].messages

HasRole(msgs, role) == \E i \in 1..Len(msgs) : msgs[i].role = role

\* The contents of the system messages of msgs, in order, with a blank line
\* between two of them.
RECURSIVE SystemBlock(_)
SystemBlock(msgs) ==
  IF msgs = <<>> THEN ""
  ELSE IF Head(msgs).role # "system" THEN SystemBlock(Tail(msgs))
  ELSE IF HasRole(Tail(msgs), "system")
    THEN Head(msgs).content \o "\n\n" \o SystemBlock(Tail(msgs))
  ELSE Head(msgs).content

\* msgs without its system messages.
RECURSIVE Others(_)
Others(msgs) ==
  IF msgs = <<>> THEN <<>>
  ELSE IF Head(msgs).role = "system" THEN Others(Tail(msgs))
  ELSE << Head(msgs) >> \o Others(Tail(msgs))

\* C13: for a list with at least one system message, the result of
\* apply_system_prompt has no system message; its first user message is the
\* original one with "[System instructions]", the system block and a blank
\* line in front of its content (or, when the list has no user message, a
\* new first message holds the prefix and the block alone); every other
\* non-system message is there unchanged and in order.
C13_SystemBlockInjectedOnce ==
  \A r \in Reqs :
    (HandlerRan(r) /\ HasRole(RawMessages(r), "system")) =>
      LET raw == RawMessages(r)
          res == messages[r]
          rest == Others(raw)
          block == SystemBlock(raw)
      IN  /\ ~HasRole(res, "system")
          /\ IF HasRole(raw, "user")
               THEN LET k == CHOOSE i \in 1..Len(rest) :
                               /\ rest[i].role = "user"
                               /\ \A j \in 1..(i - 1) : rest[j].role # "user"
                    IN  /\ Len(res) = Len(rest)
                        /\ res[k] = Message("user",
                             "[System instructions]\n" \o block \o "\n\n"
                               \o rest[k].content)
                        /\ \A i \in 1..Len(rest) : i # k => res[i] = rest[i]
               ELSE /\ Len(res) = Len(rest) + 1
                    /\ res[1] = Message("user", "[System instructions]\n" \o block)
                    /\ \A i \in 1..Len(rest) : res[i + 1] = rest[i]

C13_Witness ==
  /\ HandlerRan(1)
  /\ req[1].messages = << Message("system", "s1"), Message("user", "u1"),
                          Message("system", "s2") >>
  /\ messages[1] = << Message("user", "[System instructions]\ns1\n\ns2\n\nu1") >>

\* C14: a list without system messages comes back from apply_system_prompt
\* as it went in, and applying apply_system_prompt to one of its own results
\* gives that result again.
C14_Idempotent ==
  \A r \in Reqs :
    HandlerRan(r) =>
      /\ ~HasRole(RawMessages(r), "system") => messages[r] = RawMessages(r)
      /\ apply_system_prompt(messages[r]) = messages[r]

C14_Witness ==
  /\ HandlerRan(1)
  /\ req[1].messages = << Message("user", "u1"), Message("assistant", "a1") >>
  /\ messages[1] = req[1].messages
  /\ apply_system_prompt(messages[1]) = messages[1]

\* C15: the messages of every upstream request are a non-empty list.
C15_UpstreamMessagesNonEmpty ==
  \A r \in Reqs : \A k \in 1..Len(sent[r]) : sent[r][k].messages # <<>>

\* Request r is a streaming /v1/chat/completions request.
StreamingCompletion(r) ==
  req[r].endpoint = "/v1/chat/completions" /\ req[r].stream

\* One content chunk for each delta of the relay, in order, with the id and
\* the model name of the completion.
ContentChunks(r) ==
  [ k \in 1..Len(out[r]) |->
      [ object |-> "chat.completion.chunk", id |-> r,
        model |-> model_to_use[r], delta |-> << out[r][k] >>,
        finish_reason |-> "null" ] ]

\* The final chunk and the sentinel.
Ending(r) ==
  << [ object |-> "chat.completion.chunk", id |-> r,
       model |-> model_to_use[r], delta |-> <<>>, finish_reason |-> "stop" ],
     [ object |-> "[DONE]", id |-> None, model |-> "", delta |-> <<>>,
       finish_reason |-> "" ] >>

\* C12: the body of a streaming /v1/chat/completions response is one content
\* chunk per delta of the relay while the relay runs, and, once the relay
\* has ended successfully, these chunks, one final chunk with an empty delta
\* and finish_reason "stop", the [DONE] line, and nothing else.
C12_ChunksThenFinalThenDone ==
  \A r \in Reqs :
    (StreamingCompletion(r) /\ Started(response[r])) =>
      /\ (pc[r] \in {"connect", "lines", "yielded", "recover", "rec_init",
                     "retry", "finish"})
           => response[r].body = ContentChunks(r)
      /\ (pc[r] = "final" \/ result[r].kind = "ok")
           => response[r].body = ContentChunks(r) \o Ending(r)

C12_Witness ==
  /\ StreamingCompletion(1)
  /\ result[1].kind = "ok"
  /\ out[1] = << "b", "a" >>
  /\ Len(response[1].body) = 4
  /\ response[1].body[4].object = "[DONE]"

\* The last upstream request of r ended with an error status other than 401.
UpstreamFailed(r) ==
  /\ statuses[r] # <<>>
  /\ statuses[r][Len(statuses[r])] \notin {"200", "401", "timeout"}

\* get_bot's initialization failed for r.
GetBotFailed(r) ==
  /\ gbInit[r] # None
  /\ pc[r] # "gb_init"
  /\ ~Populated(gbInit[r])

\* C16: streaming or not, the response to a request whose upstream request
\* ended with an error status other than 401 has that status, and the
\* response to a request whose session could not be obtained or refreshed
\* has status 503.
C16_FailureStatusReachesCaller ==
  \A r \in Reqs :
    /\ UpstreamFailed(r) => response[r].status = statuses[r][Len(statuses[r])]
    /\ (GetBotFailed(r) \/ RecoveryFailed(r)) => response[r].status = "503"

\* C17: the retried upstream request is authenticated with the session the
\* request's own recover_session produced, with every credential set.
C17_RetryUsesRecoveredSession ==
  \A r \in Reqs :
    Len(sent[r]) = 2 =>
      /\ sent[r][2].session = recInit[r][1]
      /\ sent[r][2].token # None
      /\ sent[r][2].user_id # None
      /\ sent[r][2].salt_key # None
      /\ sent[r][2].fe_version # None

\* The consumer has closed the generator of request r.
Cancelled(r) == result[r].kind = "closed"

\* C18: once the consumer has closed the generator of a streaming response,
\* the upstream connection of the request is released, and the request reads
\* no line, yields no delta, sends nothing, posts no upstream request and
\* makes no call of get_bot or recover_session any more.
C18_CancelStopsRelay ==
  /\ [](\A r \in Reqs : Cancelled(r) => (conn[r] # "open" /\ _lock # r))
  /\ [][ \A r \in Reqs :
           Cancelled(r) =>
             /\ pc'[r] = pc[r]
             /\ recv'[r] = recv[r]
             /\ out'[r] = out[r]
             /\ sent'[r] = sent[r]
             /\ response'[r] = response[r]
             /\ conn'[r] = conn[r]
             /\ recInit'[r] = recInit[r]
             /\ gbInit'[r] = gbInit[r]
             /\ waited'[r] = waited[r] ]_vars

C18_Witness ==
  /\ Cancelled(1)
  /\ Len(recv[1]) = 1
  /\ Len(out[1]) = 1
  /\ conn[1] = "released"

\* The lines of a response body before its first [DONE] line.
UpToDone(lines) ==
  LET n == CHOOSE k \in 0..Len(lines) :
             /\ \A j \in 1..k : lines[j].shape # "done"
             /\ k < Len(lines) => lines[k + 1].shape = "done"
  IN  SubSeq(lines, 1, n)

\* The texts of the lines of these shapes, in order.
TextsOf(lines, shapes) ==
  LET Has(l) == l.shape \in shapes
      sel == SelectSeq(lines, Has)
  IN  [i \in 1..Len(sel) |-> sel[i].text]

\* Lines the loop of _do_stream passes over: blank ones, ones without the
\* "data: " prefix, ones whose payload is not JSON or has neither field.
Skipped == {"blank", "comment", "malformed", "other", "nochoice"}

\* No line is read after a [DONE] line.
NothingAfterDone ==
  \A r \in Reqs : \A i \in 1..(Len(recv[r]) - 1) : recv[r][i].shape # "done"

\* A step that reads a line to skip leaves the relay reading, with the same
\* deltas yielded.
SkippedLinesGoOn ==
  \A r \in Reqs :
    (Len(recv'[r]) = Len(recv[r]) + 1 /\ recv'[r][Len(recv'[r])].shape \in Skipped)
      => (pc'[r] = "lines" /\ out'[r] = out[r])

C20_UpstreamModelIsSelected ==
  \A r \in Reqs :
    req[r].endpoint = "/v1/chat/completions" =>
      \A k \in 1..Len(sent[r]) : sent[r][k].model = model_to_use[r]

\* No session has been constructed since startup: no get_bot initialization
\* and no recover_session has run.
NoRefresh == Len(heap) = 1

\* Every request that has arrived is a /v1/chat/completions request that has
\* completed successfully, and none is in flight.
AllCompletionsDone ==
  /\ \E r \in Reqs : pc[r] # "idle"
  /\ \A r \in Reqs :
       pc[r] # "idle" =>
         /\ req[r].endpoint = "/v1/chat/completions"
         /\ pc[r] = "done"
         /\ result[r] = Ended("ok", "200")

\* C21: when concurrent /v1/chat/completions requests have all completed
\* successfully without a session refresh and none is in flight, the model
\* of the shared session is the one it had before the first of them.
C21_ModelUnchangedAfterAll ==
  (NoRefresh /\ AllCompletionsDone) => heap[_bot].model = DEFAULT_MODEL

====
